---- MODULE Spec2Model ----
(***************************************************************************)
(* Model of Scripts/optimize_images.js: the batch image optimizer of the   *)
(* product catalogue.  A run loads the tracker, lists the image directory, *)
(* optimizes every untracked image, thumbnails every image and saves the   *)
(* tracker.  File names are sequences of one-character strings, so that    *)
(* extname, parse, startsWith, endsWith and toLowerCase are computed.      *)
(***************************************************************************)
EXTENDS Integers, Sequences, FiniteSets, TLC

VARIABLES
    dir,            \* entries the user keeps in IMG_DIR: [name, isFile]
    made,           \* the output folders that exist, by name
    trackerFile,    \* content of IMG_DIR/optimized_images.json
    optimizedDir,   \* names of the files in IMG_DIR/optimized
    thumbnailDir,   \* names of the files in IMG_DIR/thumbnail
    pc,             \* position of runOptimization
    trackerSet,     \* the in-memory Set, in insertion order
    imageFiles,     \* the filtered listing
    idx,            \* position of the for-of loop in imageFiles
    processedCount, \* the counter the run reports
    runs,           \* runs started so far
    faults,         \* failures and kills so far
    edits,          \* changes the environment made so far
    endKind,        \* how the last run ended
    events,         \* the steps of the current run, in order
    startTracker,   \* trackerFile when the current run started
    loadedFrom,     \* trackerFile as getOptimizedTracker read it
    loaded,         \* the Set getOptimizedTracker returned
    optOk,          \* files whose optimizeImage wrote its output in this run
    optFailed,      \* files whose optimizeImage failed in this run
    thumbOk,        \* files whose createThumbnail wrote its output in this run
    thumbFailed,    \* files whose createThumbnail failed in this run
    prev,           \* summary of the run before, while nothing changed since
    wmWidth,        \* createWatermarkSVG: argument width
    wmHeight,       \* createWatermarkSVG: argument height
    svg             \* createWatermarkSVG: the values put in the SVG

vars == <<dir, made, trackerFile, optimizedDir, thumbnailDir, pc, trackerSet,
          imageFiles, idx, processedCount, runs, faults, edits, endKind, events,
          startTracker,
          loadedFrom, loaded, optOk, optFailed, thumbOk, thumbFailed, prev,
          wmWidth, wmHeight, svg>>

runVars == <<trackerSet, imageFiles, idx, processedCount>>
ghostVars == <<events, startTracker, loadedFrom, loaded, optOk, optFailed,
               thumbOk, thumbFailed>>
diskVars == <<dir, made, trackerFile, optimizedDir, thumbnailDir>>
wmVars == <<wmWidth, wmHeight, svg>>

(***************************************************************************)
(* Bounds of the model.                                                    *)
(***************************************************************************)
MaxFiles == 2
MaxRuns == 2
MaxFaults == 1
MaxEdits == 1
MaxWidth == 700
Heights == {1, 20, 400}

(***************************************************************************)
(* Strings.                                                                *)
(***************************************************************************)
UpperChars == <<"A","B","C","D","E","F","G","H","I","J","K","L","M",
                "N","O","P","Q","R","S","T","U","V","W","X","Y","Z">>
LowerChars == <<"a","b","c","d","e","f","g","h","i","j","k","l","m",
                "n","o","p","q","r","s","t","u","v","w","x","y","z">>

SetMax(S) == CHOOSE x \in S : \A y \in S : y <= x
Range(s) == {s[i] : i \in 1..Len(s)}

LowerOf ==
    [c \in Range(UpperChars) |->
        LowerChars[CHOOSE i \in 1..Len(UpperChars) : UpperChars[i] = c]]
ToLowerChar(c) == IF c \in DOMAIN LowerOf THEN LowerOf[c] ELSE c
ToLowerCaseKeep(s) == s
ToLowerCase(s) == [i \in 1..Len(s) |-> ToLowerChar(s[i])]

StartsWith(s, p) == Len(p) <= Len(s) /\ SubSeq(s, 1, Len(p)) = p
EndsWith(s, p) == Len(p) <= Len(s) /\ SubSeq(s, Len(s) - Len(p) + 1, Len(s)) = p
Slice1(s) == SubSeq(s, 2, Len(s))

(***************************************************************************)
(* path.extname and path.parse(..).name on a name without separators.      *)
(* startDot is the last dot; preDotState is 0 when that dot is the first   *)
(* character, 1 when only dots precede it, -1 otherwise.                   *)
(***************************************************************************)
StartDot(s) ==
    LET D == {i \in 1..Len(s) : s[i] = "."}
    IN  IF D = {} THEN 0 ELSE SetMax(D)
PreDotState(s) ==
    LET d == StartDot(s)
    IN  IF d <= 1 THEN 0
        ELSE IF \A i \in 1..(d - 1) : s[i] = "." THEN 1 ELSE -1
HasExt(s) ==
    LET d == StartDot(s)
    IN  /\ d # 0
        /\ PreDotState(s) # 0
        /\ ~(PreDotState(s) = 1 /\ d = Len(s) /\ d = 2)
ExtName(s) == IF HasExt(s) THEN SubSeq(s, StartDot(s), Len(s)) ELSE <<>>
ParseName(s) == IF HasExt(s) THEN SubSeq(s, 1, StartDot(s) - 1) ELSE s

(***************************************************************************)
(* Configuration.                                                          *)
(***************************************************************************)
DotWebp == <<".","w","e","b","p">>
TrackerBase == <<"o","p","t","i","m","i","z","e","d","_","i","m","a","g","e","s",
                 ".","j","s","o","n">>
OptimizedBase == <<"o","p","t","i","m","i","z","e","d">>
ThumbnailBase == <<"t","h","u","m","b","n","a","i","l">>
AllowedExt == {<<"j","p","g">>, <<"j","p","e","g">>, <<"p","n","g">>, <<"g","i","f">>}

(***************************************************************************)
(* createWatermarkSVG.  Math.round(width * 0.03) and                       *)
(* Math.round(fontSize * 0.8) in integers: the doubles give the same       *)
(* values for every width up to 200000.                                    *)
(***************************************************************************)
MinFontSize == 18
MathMax(a, b) == IF a >= b THEN a ELSE b
RoundPercent(n, pct) == (n * pct + 50) \div 100
NoSvg == [width |-> 0, height |-> 0, fontSize |-> 0, padding |-> 0, y |-> 0]
createWatermarkSVGNoFloor(width, height) ==
    LET fontSize == RoundPercent(width, 3)
        padding == RoundPercent(fontSize, 80)
    IN  [width |-> width, height |-> height, fontSize |-> fontSize,
         padding |-> padding, y |-> height - padding]
createWatermarkSVG(width, height) ==
    LET fontSize == MathMax(RoundPercent(width, 3), MinFontSize)
        padding == RoundPercent(fontSize, 80)
    IN  [width |-> width, height |-> height, fontSize |-> fontSize,
         padding |-> padding, y |-> height - padding]

(***************************************************************************)
(* The directory entries the user may keep in IMG_DIR.                     *)
(***************************************************************************)
File(n) == [name |-> n, isFile |-> TRUE]
Folder(n) == [name |-> n, isFile |-> FALSE]
AJpg == <<"a",".","j","p","g">>
APng == <<"a",".","p","n","g">>
BJpeg == <<"b",".","J","P","E","G">>
CGif == <<"c",".","g","i","f">>
Universe ==
    { File(AJpg), File(APng), File(BJpeg),
      Folder(CGif), File(OptimizedBase), File(ThumbnailBase),
      File(<<".","h",".","j","p","g">>),
      File(<<"f",".","w","e","b","p">>),
      File(<<"g",".","W","e","b","P">>) }
Directories == {d \in SUBSET Universe : Cardinality(d) <= MaxFiles}

(***************************************************************************)
(* The tracker file: [kind, data, mode].  kind is missing, text (not       *)
(* JSON), or the type of the JSON value: null, object, string (data: its   *)
(* characters) or array (data: its strings); directory when the tracker    *)
(* path is a folder, which no read and no write of the path gets through.  *)
(* An element of an array that is not a string is written as a sequence    *)
(* holding one tag, which is no character, so that no file name equals it. *)
(* mode is what the process may do with the file: rw, r (no write), w (no  *)
(* read) or none; a read or write it may not do fails with EACCES, and a   *)
(* write keeps the mode.                                                   *)
(***************************************************************************)
Content(k, d) == [kind |-> k, data |-> d, mode |-> "rw"]
Chmod(file, m) == [file EXCEPT !.mode = m]
Written(file, k, d) == [kind |-> k, data |-> d, mode |-> file.mode]
Readable(file) == file.mode \in {"rw", "r"}
Writable(file) == file.mode \in {"rw", "w"}
Missing == Content("missing", <<>>)
JsonNumber == <<"number">>
TamperContents ==
    { Missing, Content("directory", <<>>), Content("text", <<>>),
      Content("null", <<>>), Content("object", <<>>),
      Content("string", AJpg), Content("array", <<APng, AJpg, APng>>),
      Content("array", <<AJpg, JsonNumber>>),
      Chmod(Content("array", <<APng, AJpg, APng>>), "r"),
      Chmod(Content("array", <<APng, AJpg, APng>>), "w"),
      Chmod(Content("array", <<APng, AJpg, APng>>), "none") }

(***************************************************************************)
(* A JavaScript Set of strings, as the sequence of its elements in         *)
(* insertion order.                                                        *)
(***************************************************************************)
SetHas(set, x) == x \in Range(set)
SetAdd(set, x) == IF SetHas(set, x) THEN set ELSE Append(set, x)
RECURSIVE NewSet(_)
NewSet(list) ==
    IF list = <<>> THEN <<>>
    ELSE SetAdd(NewSet(SubSeq(list, 1, Len(list) - 1)), list[Len(list)])
ArrayFrom(set) == set
StringIterator(str) == [i \in 1..Len(str) |-> <<str[i]>>]

(***************************************************************************)
(* getOptimizedTracker: [threw, value].                                    *)
(***************************************************************************)
Returned(v) == [threw |-> FALSE, value |-> v]
Thrown == [threw |-> TRUE, value |-> <<>>]
getOptimizedTrackerRethrow(file) ==
    IF ~Readable(file) THEN Thrown
    ELSE CASE file.kind = "missing" -> Returned(<<>>)
           [] file.kind = "array" -> Returned(NewSet(file.data))
           [] file.kind = "string" -> Returned(NewSet(StringIterator(file.data)))
           [] file.kind = "null" -> Returned(<<>>)
           [] OTHER -> Thrown
getOptimizedTracker(file) ==
    IF ~Readable(file) THEN Returned(<<>>)                \* readFile: EACCES
    ELSE CASE file.kind = "missing" -> Returned(<<>>)     \* ENOENT
           [] file.kind = "directory" -> Returned(<<>>)   \* EISDIR
           [] file.kind = "text" -> Returned(<<>>)        \* JSON.parse throws
           [] file.kind = "null" -> Returned(NewSet(<<>>))   \* new Set(null)
           [] file.kind = "object" -> Returned(<<>>)      \* new Set({}) throws
           [] file.kind = "string" -> Returned(NewSet(StringIterator(file.data)))
           [] file.kind = "array" -> Returned(NewSet(file.data))

(***************************************************************************)
(* updateOptimizedTracker: the file after fs.writeFile, which succeeds,    *)
(* fails before writing, or fails after truncating the file.  A write to a *)
(* folder, or to a file the process may not write, always fails before     *)
(* writing.                                                                *)
(***************************************************************************)
Outcomes == {"ok", "error", "partial"}
Possible == IF faults < MaxFaults THEN Outcomes ELSE {"ok"}
Count(outcome) == faults' = IF outcome = "ok" THEN faults ELSE faults + 1
Refused(file) == file.kind = "directory" \/ ~Writable(file)
WriteOutcomes(file) == IF Refused(file) THEN {"error"} ELSE Possible
updateOptimizedTrackerEmpty(set, file, outcome) ==
    CASE outcome = "ok" -> Written(file, "array", <<>>)
      [] outcome = "error" -> file
      [] outcome = "partial" -> Written(file, "text", <<>>)
updateOptimizedTrackerPruned(set, file, outcome) ==
    CASE outcome = "ok" ->
           Written(file, "array",
                   SelectSeq(set, LAMBDA f : f \in Range(imageFiles)))
      [] outcome = "error" -> file
      [] outcome = "partial" -> Written(file, "text", <<>>)
updateOptimizedTracker(set, file, outcome) ==
    CASE outcome = "ok" -> Written(file, "array", ArrayFrom(set))
      [] outcome = "error" -> file
      [] outcome = "partial" -> Written(file, "text", <<>>)

(***************************************************************************)
(* optimizeImage: [set, out, ok, failed].  The conversion succeeds, fails  *)
(* before the output is written, or fails leaving a partial output.        *)
(***************************************************************************)
OptResult(set, out, ok, failed) ==
    [set |-> set, out |-> out, ok |-> ok, failed |-> failed]
optimizeImageAddsOnFailure(filename, set, out, outcome) ==
    IF SetHas(set, filename) THEN OptResult(set, out, FALSE, FALSE)
    ELSE IF ToLowerCase(ExtName(filename)) = DotWebp
         THEN OptResult(set, out, FALSE, FALSE)
    ELSE LET outputPath == ParseName(filename) \o DotWebp
         IN  OptResult(SetAdd(set, filename),
                       IF outcome = "error" THEN out ELSE out \cup {outputPath},
                       outcome = "ok", outcome # "ok")
optimizeImageKeepsExt(filename, set, out, outcome) ==
    IF SetHas(set, filename) THEN OptResult(set, out, FALSE, FALSE)
    ELSE IF ToLowerCase(ExtName(filename)) = DotWebp
         THEN OptResult(set, out, FALSE, FALSE)
    ELSE LET outputPath == filename \o DotWebp
         IN  CASE outcome = "ok" ->
                    OptResult(SetAdd(set, filename), out \cup {outputPath}, TRUE, FALSE)
               [] outcome = "error" -> OptResult(set, out, FALSE, TRUE)
               [] outcome = "partial" ->
                    OptResult(set, out \cup {outputPath}, FALSE, TRUE)
optimizeImage(filename, set, out, outcome) ==
    IF SetHas(set, filename) THEN OptResult(set, out, FALSE, FALSE)
    ELSE IF ToLowerCase(ExtName(filename)) = DotWebp
         THEN OptResult(set, out, FALSE, FALSE)
    ELSE LET outputPath == ParseName(filename) \o DotWebp
         IN  CASE outcome = "ok" ->
                    OptResult(SetAdd(set, filename), out \cup {outputPath}, TRUE, FALSE)
               [] outcome = "error" -> OptResult(set, out, FALSE, TRUE)
               [] outcome = "partial" ->
                    OptResult(set, out \cup {outputPath}, FALSE, TRUE)

(***************************************************************************)
(* createThumbnail: the thumbnail directory afterwards; the conversion     *)
(* succeeds, fails before the write, or fails leaving a partial file.      *)
(***************************************************************************)
createThumbnail(filename, thumbs, outcome) ==
    LET thumbPath == ParseName(filename) \o DotWebp
    IN  IF outcome = "error" THEN thumbs ELSE thumbs \cup {thumbPath}

(***************************************************************************)
(* fs.readdir(IMG_DIR) and the filter of runOptimization.                  *)
(***************************************************************************)
Readdir ==
    dir \cup (CASE trackerFile.kind = "missing" -> {}
               [] trackerFile.kind = "directory" -> {Folder(TrackerBase)}
               [] OTHER -> {File(TrackerBase)})
        \cup {Folder(d) : d \in made}
IsImageFileCaseSensitive(f) ==
    /\ f.isFile
    /\ ~StartsWith(f.name, <<".">>)
    /\ ~EndsWith(f.name, DotWebp)
    /\ ~EndsWith(f.name, TrackerBase)
    /\ ToLowerCaseKeep(Slice1(ExtName(f.name))) \in AllowedExt
IsImageFile(f) ==
    /\ f.isFile
    /\ ~StartsWith(f.name, <<".">>)
    /\ ~EndsWith(f.name, DotWebp)
    /\ ~EndsWith(f.name, TrackerBase)
    /\ ToLowerCase(Slice1(ExtName(f.name))) \in AllowedExt
Orderings(S) == {s \in [1..Cardinality(S) -> S] : Range(s) = S}
Listings(entries) == Orderings({f.name : f \in {e \in entries : IsImageFile(e)}})

(***************************************************************************)
(* The state after construction: nothing has run, the image directory      *)
(* holds some entries and no output of the script.                         *)
(***************************************************************************)
NoPrev ==
    [saved |-> FALSE, readable |-> FALSE, clean |-> FALSE, files |-> {},
     thumbsTried |-> FALSE, thumbsWritten |-> FALSE]
Ev(e, f) == [e |-> e, f |-> f]

Init ==
    /\ dir \in Directories
    /\ made = {}
    /\ trackerFile = Missing
    /\ optimizedDir = {}
    /\ thumbnailDir = {}
    /\ pc = "idle"
    /\ runs = 0
    /\ faults = 0
    /\ edits = 0
    /\ prev = NoPrev
    /\ trackerSet = <<>>
    /\ imageFiles = <<>>
    /\ idx = 0
    /\ processedCount = 0
    /\ endKind = "none"
    /\ events = <<>>
    /\ startTracker = Missing
    /\ loadedFrom = Missing
    /\ loaded = <<>>
    /\ optOk = {}
    /\ optFailed = {}
    /\ thumbOk = {}
    /\ thumbFailed = {}
    /\ wmWidth = 1
    /\ wmHeight = 1
    /\ svg = NoSvg

(***************************************************************************)
(* The environment, between runs: the user adds or removes an entry of the *)
(* image directory, or something replaces or deletes the tracker file.     *)
(***************************************************************************)
Edit ==
    /\ pc = "idle"
    /\ runs < MaxRuns
    /\ edits < MaxEdits
    /\ edits' = edits + 1
    /\ prev' = NoPrev
    /\ UNCHANGED <<made, optimizedDir, thumbnailDir, pc, runs, faults, endKind,
                   runVars, ghostVars, wmVars>>

AddEntry ==
    /\ runs > 0
    /\ Cardinality(dir) < MaxFiles
    /\ \E e \in Universe \ dir : e.name \notin made /\ dir' = dir \cup {e}
    /\ UNCHANGED trackerFile
    /\ Edit

RemoveEntry ==
    /\ runs > 0
    /\ \E e \in dir : dir' = dir \ {e}
    /\ UNCHANGED trackerFile
    /\ Edit

TamperTracker ==
    /\ \E c \in TamperContents \ {trackerFile} : trackerFile' = c
    /\ UNCHANGED dir
    /\ Edit

(***************************************************************************)
(* runOptimization, one step per await.  An await that fails counts as a   *)
(* fault, and so does a kill.                                              *)
(***************************************************************************)
Finish(kind) ==
    /\ pc' = "done"
    /\ endKind' = kind

\* fs.mkdir(folder, {recursive: true}): a file of that name makes it fail,
\* and so may anything else; a failure rejects the run.
Mkdir(base, next) ==
    IF File(base) \in dir
    THEN /\ Finish("mkdirFailed")
         /\ UNCHANGED <<made, faults>>
    ELSE \E outcome \in Possible \ {"partial"} :
           /\ Count(outcome)
           /\ IF outcome = "ok"
              THEN /\ made' = made \cup {base}
                   /\ pc' = next
                   /\ UNCHANGED endKind
              ELSE /\ UNCHANGED made
                   /\ Finish("mkdirFailed")

\* lines 144-146: the run starts and makes the optimized folder
StartRun ==
    /\ pc = "idle"
    /\ runs < MaxRuns
    /\ runs' = runs + 1
    /\ startTracker' = trackerFile
    /\ Mkdir(OptimizedBase, "mkdir")
    /\ UNCHANGED <<dir, trackerFile, optimizedDir, thumbnailDir, runVars, edits,
                   prev, events, loadedFrom, loaded, optOk, optFailed, thumbOk,
                   thumbFailed, wmVars>>

\* line 147: the thumbnail folder
MakeThumbnailDir ==
    /\ pc = "mkdir"
    /\ Mkdir(ThumbnailBase, "load")
    /\ UNCHANGED <<dir, trackerFile, optimizedDir, thumbnailDir, runVars, runs,
                   edits, prev, ghostVars, wmVars>>

\* lines 149-150
LoadTracker ==
    /\ pc = "load"
    /\ LET r == getOptimizedTracker(trackerFile)
       IN  /\ loadedFrom' = trackerFile
           /\ events' = Append(events, Ev("load", <<>>))
           /\ IF r.threw
              THEN /\ Finish("loadFailed")
                   /\ UNCHANGED <<trackerSet, loaded>>
              ELSE /\ trackerSet' = r.value
                   /\ loaded' = r.value
                   /\ pc' = "readdir"
                   /\ UNCHANGED endKind
    /\ UNCHANGED <<diskVars, imageFiles, idx, processedCount, runs, faults,
                   edits, prev, startTracker, optOk, optFailed, thumbOk,
                   thumbFailed, wmVars>>

\* lines 152-168: fs.readdir, in the order the file system gives, and the filter
ListFiles ==
    /\ pc = "readdir"
    /\ \E outcome \in Possible \ {"partial"} :
         /\ Count(outcome)
         /\ IF outcome = "ok"
            THEN /\ \E listing \in Listings(Readdir) : imageFiles' = listing
                 /\ idx' = 1
                 /\ processedCount' = 0
                 /\ pc' = "loop"
                 /\ events' = Append(events, Ev("list", <<>>))
                 /\ UNCHANGED endKind
            ELSE /\ Finish("readdirFailed")
                 /\ UNCHANGED <<imageFiles, idx, processedCount, events>>
    /\ UNCHANGED <<diskVars, trackerSet, runs, edits, prev, startTracker,
                   loadedFrom, loaded, optOk, optFailed, thumbOk, thumbFailed,
                   wmVars>>

\* lines 169-173: the file is not tracked, optimizeImage is called
OptimizeStart ==
    /\ pc = "loop"
    /\ idx <= Len(imageFiles)
    /\ ~SetHas(trackerSet, imageFiles[idx])
    /\ pc' = "optimizing"
    /\ events' = Append(events, Ev("optStart", imageFiles[idx]))
    /\ UNCHANGED <<diskVars, runVars, runs, faults, edits, endKind, prev,
                   startTracker, loadedFrom, loaded, optOk, optFailed, thumbOk,
                   thumbFailed, wmVars>>

\* lines 173-174: optimizeImage returns, the counter is incremented
OptimizeEnd ==
    /\ pc = "optimizing"
    /\ \E outcome \in Possible :
         LET file == imageFiles[idx]
             r == optimizeImage(file, trackerSet, optimizedDir, outcome)
         IN  /\ Count(outcome)
             /\ trackerSet' = r.set
             /\ optimizedDir' = r.out
             /\ optOk' = IF r.ok THEN optOk \cup {file} ELSE optOk
             /\ optFailed' = IF r.failed THEN optFailed \cup {file} ELSE optFailed
             /\ events' = Append(events, Ev("optEnd", file))
    /\ processedCount' = processedCount + 1
    /\ pc' = "thumbnail"
    /\ UNCHANGED <<dir, made, trackerFile, thumbnailDir, imageFiles, idx, runs,
                   edits, endKind, prev, startTracker, loadedFrom, loaded,
                   thumbOk, thumbFailed, wmVars>>

\* line 172: the file is tracked, optimizeImage is not called
SkipOptimize ==
    /\ pc = "loop"
    /\ idx <= Len(imageFiles)
    /\ SetHas(trackerSet, imageFiles[idx])
    /\ pc' = "thumbnail"
    /\ UNCHANGED <<diskVars, runVars, runs, faults, edits, endKind, prev,
                   ghostVars, wmVars>>

\* line 178: createThumbnail is called
ThumbnailStart ==
    /\ pc = "thumbnail"
    /\ pc' = "thumbnailing"
    /\ events' = Append(events, Ev("thumbStart", imageFiles[idx]))
    /\ UNCHANGED <<diskVars, runVars, runs, faults, edits, endKind, prev,
                   startTracker, loadedFrom, loaded, optOk, optFailed, thumbOk,
                   thumbFailed, wmVars>>

ThumbnailEndSaving ==
    /\ pc = "thumbnailing"
    /\ \E outcome \in Possible :
         LET file == imageFiles[idx]
         IN  /\ Count(outcome)
             /\ thumbnailDir' = createThumbnail(file, thumbnailDir, outcome)
             /\ thumbOk' = IF outcome = "ok" THEN thumbOk \cup {file} ELSE thumbOk
             /\ thumbFailed' =
                    IF outcome # "ok" THEN thumbFailed \cup {file} ELSE thumbFailed
             /\ events' = Append(events, Ev("thumbEnd", file))
    /\ trackerFile' = Written(trackerFile, "array", ArrayFrom(trackerSet))
    /\ idx' = idx + 1
    /\ pc' = "loop"
    /\ UNCHANGED <<dir, made, optimizedDir, trackerSet, imageFiles,
                   processedCount, runs, edits, endKind, prev, startTracker,
                   loadedFrom, loaded, optOk, optFailed, wmVars>>

\* lines 178-179: createThumbnail returns, the loop goes to the next file
ThumbnailEnd ==
    /\ pc = "thumbnailing"
    /\ \E outcome \in Possible :
         LET file == imageFiles[idx]
         IN  /\ Count(outcome)
             /\ thumbnailDir' = createThumbnail(file, thumbnailDir, outcome)
             /\ thumbOk' = IF outcome = "ok" THEN thumbOk \cup {file} ELSE thumbOk
             /\ thumbFailed' =
                    IF outcome # "ok" THEN thumbFailed \cup {file} ELSE thumbFailed
             /\ events' = Append(events, Ev("thumbEnd", file))
    /\ idx' = idx + 1
    /\ pc' = "loop"
    /\ UNCHANGED <<dir, made, trackerFile, optimizedDir, trackerSet, imageFiles,
                   processedCount, runs, edits, endKind, prev, startTracker,
                   loadedFrom, loaded, optOk, optFailed, wmVars>>

\* lines 181-185: the loop is over, the tracker is written; a failure rejects
SaveTracker ==
    /\ pc = "loop"
    /\ idx > Len(imageFiles)
    /\ \E outcome \in WriteOutcomes(trackerFile) :
         /\ faults' = IF outcome = "ok" \/ Refused(trackerFile)
                      THEN faults ELSE faults + 1
         /\ trackerFile' = updateOptimizedTracker(trackerSet, trackerFile, outcome)
         /\ Finish(IF outcome = "ok" THEN "saved" ELSE "saveFailed")
    /\ events' = Append(events, Ev("save", <<>>))
    /\ UNCHANGED <<dir, made, optimizedDir, thumbnailDir, runVars, runs, edits,
                   prev, startTracker, loadedFrom, loaded, optOk, optFailed,
                   thumbOk, thumbFailed, wmVars>>

\* the process is killed while the run waits: its memory is gone
Kill ==
    /\ pc \in {"mkdir", "load", "readdir", "loop", "optimizing", "thumbnail",
              "thumbnailing"}
    /\ faults < MaxFaults
    /\ faults' = faults + 1
    /\ pc' = "idle"
    /\ prev' = NoPrev
    /\ trackerSet' = <<>>
    /\ imageFiles' = <<>>
    /\ idx' = 0
    /\ processedCount' = 0
    /\ endKind' = "none"
    /\ events' = <<>>
    /\ startTracker' = Missing
    /\ loadedFrom' = Missing
    /\ loaded' = <<>>
    /\ optOk' = {}
    /\ optFailed' = {}
    /\ thumbOk' = {}
    /\ thumbFailed' = {}
    /\ UNCHANGED <<diskVars, runs, edits, wmVars>>

\* line 189: the process ends
Exit ==
    /\ pc = "done"
    /\ pc' = "idle"
    /\ prev' = IF endKind = "saved"
                THEN [saved |-> TRUE,
                      readable |-> Readable(trackerFile),
                      clean |-> optFailed = {},
                      files |-> Range(imageFiles),
                      thumbsTried |-> thumbOk \cup thumbFailed = Range(imageFiles),
                      thumbsWritten |-> thumbOk = Range(imageFiles)]
                ELSE NoPrev
    /\ trackerSet' = <<>>
    /\ imageFiles' = <<>>
    /\ idx' = 0
    /\ processedCount' = 0
    /\ endKind' = "none"
    /\ events' = <<>>
    /\ startTracker' = Missing
    /\ loadedFrom' = Missing
    /\ loaded' = <<>>
    /\ optOk' = {}
    /\ optFailed' = {}
    /\ thumbOk' = {}
    /\ thumbFailed' = {}
    /\ UNCHANGED <<diskVars, runs, faults, edits, wmVars>>

Run ==
    \/ StartRun \/ MakeThumbnailDir \/ LoadTracker \/ ListFiles \/ OptimizeStart \/ OptimizeEnd
    \/ SkipOptimize \/ ThumbnailStart \/ ThumbnailEnd \/ SaveTracker \/ Kill
    \/ Exit

NextClosed == Run \/ AddEntry \/ RemoveEntry
Next == NextClosed \/ TamperTracker

Spec == Init /\ [][Next]_vars
SpecClosed == Init /\ [][NextClosed]_vars

(***************************************************************************)
(* createWatermarkSVG alone: the arguments are drawn, the call is made.    *)
(***************************************************************************)
InitWM ==
    /\ dir = {}
    /\ made = {}
    /\ trackerFile = Missing
    /\ optimizedDir = {}
    /\ thumbnailDir = {}
    /\ pc = "idle"
    /\ runs = 0
    /\ faults = 0
    /\ edits = 0
    /\ prev = NoPrev
    /\ trackerSet = <<>>
    /\ imageFiles = <<>>
    /\ idx = 0
    /\ processedCount = 0
    /\ endKind = "none"
    /\ events = <<>>
    /\ startTracker = Missing
    /\ loadedFrom = Missing
    /\ loaded = <<>>
    /\ optOk = {}
    /\ optFailed = {}
    /\ thumbOk = {}
    /\ thumbFailed = {}
    /\ wmWidth \in 1..MaxWidth
    /\ wmHeight \in Heights
    /\ svg = NoSvg

Render ==
    /\ svg = NoSvg
    /\ svg' = createWatermarkSVG(wmWidth, wmHeight)
    /\ UNCHANGED <<diskVars, pc, runVars, runs, faults, edits, endKind, prev,
                   ghostVars, wmWidth, wmHeight>>

SpecWM == InitWM /\ [][Render]_vars

(***************************************************************************)
(* Vocabulary of the properties.                                           *)
(***************************************************************************)
Abs(n) == IF n < 0 THEN -n ELSE n
Output(f) == ParseName(f) \o DotWebp
Completed == pc = "done" /\ endKind \in {"saved", "saveFailed"}
InRun ==
    pc \in {"mkdir", "load", "readdir", "loop", "optimizing", "thumbnail",
           "thumbnailing"}
Listed == pc \in {"loop", "optimizing", "thumbnail", "thumbnailing"} \/ Completed
Positions(e, f) == {k \in 1..Len(events) : events[k] = Ev(e, f)}
Started(e) == {events[k].f : k \in {j \in 1..Len(events) : events[j].e = e}}
FileEvent(k) == events[k].e \in {"optStart", "optEnd", "thumbStart", "thumbEnd"}
\* the extension in the words of the specification: what follows the last dot
Extension(name) ==
    IF \E i \in 1..Len(name) : name[i] = "."
    THEN SubSeq(name, SetMax({i \in 1..Len(name) : name[i] = "."}) + 1, Len(name))
    ELSE <<>>
Qualifies(e) ==
    /\ e.isFile
    /\ e.name[1] # "."
    /\ e.name # TrackerBase
    /\ ToLowerCase(Extension(e.name)) \in AllowedExt
\* every entry a listing can hold, those that qualify, and the webp names
AllEntries ==
    Universe \cup {File(TrackerBase), Folder(TrackerBase),
                   Folder(OptimizedBase), Folder(ThumbnailBase)}
QualifyingEntries == {e \in AllEntries : Qualifies(e)}
WebpNames ==
    {e.name : e \in {x \in AllEntries :
                        ToLowerCase(Extension(x.name)) = <<"w","e","b","p">>}}

(***************************************************************************)
(* C1: a first run with an empty tracker in which every conversion         *)
(* succeeds leaves exactly N optimized outputs, N thumbnails and N tracker *)
(* entries, N being the number of qualifying source images.                *)
(***************************************************************************)
FreshRunCounts ==
    (/\ pc = "done" /\ endKind = "saved" /\ runs = 1
     /\ loaded = <<>> /\ optFailed = {} /\ thumbFailed = {})
    => /\ Cardinality(optimizedDir) = Len(imageFiles)
       /\ Cardinality(thumbnailDir) = Len(imageFiles)
       /\ trackerFile.kind = "array"
       /\ Len(trackerFile.data) = Len(imageFiles)

(***************************************************************************)
(* C2, as stated: a run that follows a completed run with nothing changed  *)
(* in between optimizes nothing, and both runs write every thumbnail.      *)
(***************************************************************************)
SecondRunSkipsAll ==
    (pc = "done" /\ endKind = "saved" /\ prev.saved)
    => /\ Started("optStart") = {}
       /\ thumbOk = Range(imageFiles)
       /\ prev.thumbsWritten

(***************************************************************************)
(* C2, amended: when the run before saved its tracker to a file that can   *)
(* be read and none of its optimizations failed, and nothing changed       *)
(* since, the run lists the same files, calls optimizeImage for none and   *)
(* writes no optimized output;                                             *)
(* createThumbnail is called for every listed file in both runs and every  *)
(* call that succeeds leaves the file's thumbnail.                         *)
(***************************************************************************)
SecondRunSkipsAllAfterCleanRun ==
    (Completed /\ prev.saved /\ prev.readable /\ prev.clean)
    => /\ Range(imageFiles) = prev.files
       /\ Started("optStart") = {}
       /\ optOk = {} /\ optFailed = {}
       /\ processedCount = 0
       /\ Started("thumbStart") = Range(imageFiles)
       /\ thumbOk \cup thumbFailed = Range(imageFiles)
       /\ prev.thumbsTried
       /\ \A f \in thumbOk : Output(f) \in thumbnailDir
SecondRunSkippedAll ==
    /\ Completed /\ prev.saved /\ prev.readable /\ prev.clean
    /\ endKind = "saved"
    /\ Len(imageFiles) = 2
    /\ thumbOk = Range(imageFiles)

(***************************************************************************)
(* C3: a run in which an optimization failed still gives every listed file *)
(* its steps and ends at the tracker save; the saved tracker holds every   *)
(* file optimized in the run and none that failed.                         *)
(***************************************************************************)
FailureDoesNotStopRun ==
    (pc = "done" /\ optFailed # {})
    => /\ endKind \in {"saved", "saveFailed"}
       /\ Positions("save", <<>>) # {}
       /\ \A f \in Range(imageFiles) :
            /\ f \in thumbOk \cup thumbFailed
            /\ f \notin Range(loaded) => f \in optOk \cup optFailed
       /\ endKind = "saved" =>
            /\ trackerFile.kind = "array"
            /\ optOk \subseteq Range(trackerFile.data)
            /\ optFailed \cap Range(trackerFile.data) = {}
FailedAmongOthers ==
    /\ pc = "done" /\ endKind = "saved"
    /\ optFailed # {} /\ optOk # {}

(***************************************************************************)
(* C4: the count the run reports is the number of file names the run       *)
(* added to the tracker set.                                               *)
(***************************************************************************)
ReportedCountIsAdded ==
    Completed => processedCount = Len(trackerSet) - Len(loaded)

(***************************************************************************)
(* C5: every file name in the tracker set, in memory or in the tracker     *)
(* file, has its optimized output <basename>.webp in the optimized         *)
(* directory.                                                              *)
(***************************************************************************)
TrackedHasOutput ==
    /\ \A f \in Range(trackerSet) : Output(f) \in optimizedDir
    /\ trackerFile.kind = "array" =>
         \A f \in Range(trackerFile.data) : Output(f) \in optimizedDir
TrackedSourceGone ==
    /\ pc = "thumbnail"
    /\ runs = 2
    /\ \E f \in Range(trackerSet) : File(f) \notin dir
    /\ \E f \in Range(trackerSet) : f \notin Range(loaded)

(***************************************************************************)
(* C6, as stated: when the tracker file is missing, unreadable or anything *)
(* but a JSON array of file names, the load does not raise, no listed file *)
(* counts as tracked, and a run that is not killed calls optimizeImage for *)
(* every listed file and ends at the tracker save.                         *)
(***************************************************************************)
IsString(v) == v # JsonNumber
IsFilenameArray(file) ==
    /\ file.kind = "array"
    /\ \A i \in 1..Len(file.data) : IsString(file.data[i])
BadTrackerMeansAllNew ==
    (events # <<>> /\ ~(Readable(loadedFrom) /\ IsFilenameArray(loadedFrom)))
    => /\ endKind # "loadFailed"
       /\ \A f \in Range(imageFiles) : f \notin Range(loaded)
       /\ (pc = "done" /\ endKind # "readdirFailed") =>
            /\ Completed
            /\ processedCount = Len(imageFiles)
            /\ Started("optStart") = Range(imageFiles)
            /\ optOk \cup optFailed = Range(imageFiles)

(***************************************************************************)
(* C6, amended: the load never raises, whatever the tracker file is.  When *)
(* the file is missing, unreadable or not a JSON array, no listed file     *)
(* counts as tracked; when it is a JSON array, also one with elements that *)
(* are not file names, the listed files that count as tracked are those    *)
(* whose name is an element of the array.  A run that is not killed calls  *)
(* optimizeImage for every listed file that does not count as tracked, for *)
(* no other, and ends at the tracker save.                                 *)
(***************************************************************************)
ArrayElements(file) ==
    IF Readable(file) /\ file.kind = "array" THEN Range(file.data) ELSE {}
OnlyArrayElementsAreTracked ==
    events # <<>>
    => LET elements == ArrayElements(loadedFrom)
           NewFiles == {f \in Range(imageFiles) : f \notin elements}
       IN  /\ endKind # "loadFailed"
           /\ \A f \in Range(imageFiles) :
                f \in Range(loaded) <=> f \in elements
           /\ (pc = "done" /\ endKind # "readdirFailed") =>
                /\ Completed
                /\ processedCount = Cardinality(NewFiles)
                /\ Started("optStart") = NewFiles
                /\ optOk \cup optFailed = NewFiles
CorruptTrackerRun ==
    /\ pc = "done" /\ endKind = "saved"
    /\ \/ ~Readable(loadedFrom)
       \/ loadedFrom.kind \in {"text", "object", "string"}
    /\ Len(imageFiles) = 2
    /\ optOk = Range(imageFiles)

(***************************************************************************)
(* C7: the listed files are exactly the entries that qualify, each listed  *)
(* once; no file with extension webp in any case is given to optimizeImage *)
(* or createThumbnail; a completed run has called createThumbnail exactly  *)
(* once for every listed file, and optimizeImage at most once.             *)
(***************************************************************************)
CandidatesExactlyQualifying ==
    Listed
    => /\ Readdir \subseteq AllEntries
       /\ Range(imageFiles) = {e.name : e \in Readdir \cap QualifyingEntries}
       /\ Len(imageFiles) = Cardinality(Range(imageFiles))
       /\ \A k \in 1..Len(events) :
            FileEvent(k) =>
              /\ events[k].f \in Range(imageFiles)
              /\ events[k].f \notin WebpNames
       /\ \A f \in Range(imageFiles) :
            /\ Cardinality(Positions("thumbStart", f)) <= 1
            /\ Cardinality(Positions("optStart", f)) <= 1
            /\ Completed => Cardinality(Positions("thumbStart", f)) = 1
UpperCaseListedWebpNot ==
    /\ pc = "loop"
    /\ idx = 2
    /\ imageFiles = <<BJpeg>>
    /\ \E e \in dir : e.name \in WebpNames

(***************************************************************************)
(* C8: the font size is max(3% of the width rounded to the nearest         *)
(* integer, 18): never below 18 and not decreasing in the width; the       *)
(* padding is 80% of the font size rounded to the nearest integer.         *)
(***************************************************************************)
FontSizeLaw ==
    svg # NoSvg
    => /\ \E n \in 0..wmWidth :
            /\ Abs(100 * n - 3 * wmWidth) <= 50
            /\ svg.fontSize = (IF n >= 18 THEN n ELSE 18)
       /\ svg.fontSize >= 18
       /\ \A w \in 1..wmWidth :
            createWatermarkSVG(w, wmHeight).fontSize <= svg.fontSize
       /\ Abs(10 * svg.padding - 8 * svg.fontSize) <= 5
       /\ svg.y = wmHeight - svg.padding
       /\ \A h \in Heights :
            createWatermarkSVG(wmWidth, h).fontSize = svg.fontSize
FontScaled ==
    /\ svg # NoSvg
    /\ svg.fontSize > 18
    /\ wmHeight = 400

(***************************************************************************)
(* C9: the steps of a run are ordered: the load comes first; a file's      *)
(* optimizeImage has returned before its createThumbnail is called;        *)
(* createThumbnail has returned before any step of the next file; the      *)
(* tracker file is written once, after the last thumbnail, and is as it    *)
(* was at the start of the run until then.                                 *)
(***************************************************************************)
StepsInOrder ==
    /\ events # <<>> => events[1] = Ev("load", <<>>)
    /\ \A k \in 1..Len(events) :
         /\ events[k].e = "thumbStart" =>
              \A j \in Positions("optStart", events[k].f) :
                 \E m \in Positions("optEnd", events[k].f) : j < m /\ m < k
         /\ (k > 1 /\ FileEvent(k) /\ FileEvent(k - 1)
                   /\ events[k - 1].f # events[k].f) =>
              /\ events[k - 1].e = "thumbEnd"
              /\ events[k].f \notin {events[j].f : j \in 1..(k - 1)}
         /\ events[k].e = "save" =>
              /\ k = Len(events)
              /\ \A f \in Range(imageFiles) :
                   \E m \in Positions("thumbEnd", f) : m < k
    /\ Cardinality(Positions("save", <<>>)) <= 1
    /\ (pc = "done" /\ endKind = "saved") => Cardinality(Positions("save", <<>>)) = 1
    /\ InRun => trackerFile = startTracker
    /\ (pc = "done" /\ trackerFile # startTracker) => Positions("save", <<>>) # {}
TwoFilesInOrder ==
    /\ pc = "done" /\ endKind = "saved"
    /\ Len(imageFiles) = 2
    /\ Cardinality(optOk) = 1
    /\ Len(loaded) = 1

(***************************************************************************)
(* C10: the tracker only grows: the set in memory always holds what was    *)
(* loaded, a saved tracker file holds every name of the array it was       *)
(* loaded from, also names whose source file is gone, and no step of the   *)
(* loop other than the return of optimizeImage changes the set.            *)
(***************************************************************************)
TrackerGrowsInRun ==
    /\ (InRun \/ pc = "done") => Range(loaded) \subseteq Range(trackerSet)
    /\ (pc = "done" /\ endKind = "saved" /\ loadedFrom.kind = "array"
                    /\ Readable(loadedFrom)) =>
         /\ trackerFile.kind = "array"
         /\ Range(loadedFrom.data) \subseteq Range(trackerFile.data)
ThumbnailKeepsTracker ==
    /\ (pc = "thumbnailing" /\ pc' = "loop") => trackerSet' = trackerSet
    /\ (pc \in {"loop", "optimizing", "thumbnail", "thumbnailing"} /\ pc' # "idle") =>
         Range(trackerSet) \subseteq Range(trackerSet')
TrackerOnlyGrows == []TrackerGrowsInRun /\ [][ThumbnailKeepsTracker]_vars
DeletedSourceStaysTracked ==
    /\ pc = "done" /\ endKind = "saved"
    /\ loadedFrom.kind = "array" /\ Readable(loadedFrom)
    /\ File(BJpeg) \notin dir
    /\ BJpeg \in Range(loaded)
    /\ BJpeg \in Range(trackerFile.data)
    /\ optOk # {}

====
